---- MODULE Spec2Model ----
(***************************************************************************)
(* Model of backend/src/executors/codex.rs: the Codex executor.            *)
(*                                                                         *)
(*   - normalize_logs: the line scanner that turns the agent's captured    *)
(*     output (JSON lines mixed with plain text) into normalized entries   *)
(*     and a session id;                                                   *)
(*   - spawn / spawn_followup: the two process launchers.                  *)
(*                                                                         *)
(* Text is a sequence of tokens (runs of characters); an Option is a       *)
(* sequence of length at most one (<<>> is None, <<v>> is Some(v)).        *)
(***************************************************************************)
EXTENDS Integers, Sequences, FiniteSets, TLC

(***************************************************************************)
(* Text: the characters of logs: &str, grouped into tokens.                *)
(***************************************************************************)
\* a punctuation character of JSON: { } [ ] : ,
P(c) == [k |-> "punct", v |-> c]
\* a double-quoted string literal "s"
S(s) == [k |-> "str", v |-> s]
\* a number literal
N(n) == [k |-> "num", v |-> n]
\* one of the literals null, true, false
L(w) == [k |-> "lit", v |-> w]
\* any other run of non-blank characters
W(w) == [k |-> "chars", v |-> w]
\* a run of blanks
WS == [k |-> "ws", v |-> " "]
\* the line terminator
NL == [k |-> "nl", v |-> "\n"]

None == <<>>
Some(v) == <<v>>

\* str::lines(): the text split at line terminators; a final empty line is
\* not produced.
RECURSIVE SplitAt(_, _, _)
SplitAt(text, cur, acc) ==
    IF text = <<>> THEN Append(acc, cur)
    ELSE IF Head(text) = NL THEN SplitAt(Tail(text), <<>>, Append(acc, cur))
    ELSE SplitAt(Tail(text), Append(cur, Head(text)), acc)

Lines(text) ==
    LET segs == SplitAt(text, <<>>, <<>>)
    IN IF segs[Len(segs)] = <<>> THEN SubSeq(segs, 1, Len(segs) - 1) ELSE segs

\* str::trim(): leading and trailing blanks removed.
RECURSIVE TrimStart(_)
TrimStart(t) == IF t # <<>> /\ Head(t).k = "ws" THEN TrimStart(Tail(t)) ELSE t

RECURSIVE TrimEnd(_)
TrimEnd(t) ==
    IF t # <<>> /\ t[Len(t)].k = "ws" THEN TrimEnd(SubSeq(t, 1, Len(t) - 1)) ELSE t

Trim(t) == TrimEnd(TrimStart(t))

(***************************************************************************)
(* serde_json::Value and serde_json::from_str.                             *)
(* A value is [t, s, kids]: t the kind, s the payload of a scalar (or the  *)
(* key of an object member), kids the members / elements.                  *)
(***************************************************************************)
JStr(s) == [t |-> "str", s |-> s, kids |-> <<>>]
JNum(n) == [t |-> "num", s |-> n, kids |-> <<>>]
JLit(w) == [t |-> "lit", s |-> w, kids |-> <<>>]
JArr(elems) == [t |-> "arr", s |-> "", kids |-> elems]
JMember(key, val) == [t |-> "member", s |-> key, kids |-> <<val>>]
JObj(members) == [t |-> "obj", s |-> "", kids |-> members]

\* Map::insert: a repeated key keeps its place and takes the later value.
PutMember(members, key, val) ==
    IF \E i \in 1..Len(members) : members[i].s = key
    THEN [i \in 1..Len(members) |->
            IF members[i].s = key THEN JMember(key, val) ELSE members[i]]
    ELSE Append(members, JMember(key, val))

ParseFail == [ok |-> FALSE, val |-> JLit("null"), pos |-> 0]
ParseOk(val, pos) == [ok |-> TRUE, val |-> val, pos |-> pos]

RECURSIVE SkipWs(_, _)
SkipWs(t, i) == IF i <= Len(t) /\ t[i].k = "ws" THEN SkipWs(t, i + 1) ELSE i

IsPunct(t, i, c) == i <= Len(t) /\ t[i] = P(c)

RECURSIVE ParseValue(_, _)
RECURSIVE ParseMembers(_, _, _)
RECURSIVE ParseElements(_, _, _)

ParseValue(t, i) ==
    LET j == SkipWs(t, i) IN
    IF j > Len(t) THEN ParseFail
    ELSE IF t[j].k = "str" THEN ParseOk(JStr(t[j].v), j + 1)
    ELSE IF t[j].k = "num" THEN ParseOk(JNum(t[j].v), j + 1)
    ELSE IF t[j].k = "lit" THEN ParseOk(JLit(t[j].v), j + 1)
    ELSE IF t[j] = P("{") THEN
        IF IsPunct(t, SkipWs(t, j + 1), "}")
        THEN ParseOk(JObj(<<>>), SkipWs(t, j + 1) + 1)
        ELSE ParseMembers(t, j + 1, <<>>)
    ELSE IF t[j] = P("[") THEN
        IF IsPunct(t, SkipWs(t, j + 1), "]")
        THEN ParseOk(JArr(<<>>), SkipWs(t, j + 1) + 1)
        ELSE ParseElements(t, j + 1, <<>>)
    ELSE ParseFail

ParseMembers(t, i, acc) ==
    LET j == SkipWs(t, i)
        c == SkipWs(t, j + 1)
    IN
    IF j > Len(t) \/ t[j].k # "str" \/ ~IsPunct(t, c, ":") THEN ParseFail
    ELSE LET r == ParseValue(t, c + 1) IN
         IF ~r.ok THEN ParseFail
         ELSE LET n == SkipWs(t, r.pos)
                  acc2 == PutMember(acc, t[j].v, r.val)
              IN IF IsPunct(t, n, ",") THEN ParseMembers(t, n + 1, acc2)
                 ELSE IF IsPunct(t, n, "}") THEN ParseOk(JObj(acc2), n + 1)
                 ELSE ParseFail

ParseElements(t, i, acc) ==
    LET r == ParseValue(t, i) IN
    IF ~r.ok THEN ParseFail
    ELSE LET n == SkipWs(t, r.pos)
             acc2 == Append(acc, r.val)
         IN IF IsPunct(t, n, ",") THEN ParseElements(t, n + 1, acc2)
            ELSE IF IsPunct(t, n, "]") THEN ParseOk(JArr(acc2), n + 1)
            ELSE ParseFail

\* serde_json::from_str: Some(value) when the whole text is one JSON value,
\* None (the Err arm) otherwise.
FromStr(t) ==
    LET r == ParseValue(t, 1) IN
    IF r.ok /\ SkipWs(t, r.pos) > Len(t) THEN Some(r.val) ELSE None

\* Value::get(key): the member of an object; None for a missing key and for
\* every value that is not an object.
Get(json, key) ==
    IF json.t = "obj" /\ \E i \in 1..Len(json.kids) : json.kids[i].s = key
    THEN LET i == CHOOSE i \in 1..Len(json.kids) : json.kids[i].s = key
         IN Some(json.kids[i].kids[1])
    ELSE None

\* .and_then(|v| v.as_str())
AsStr(opt) == IF opt # None /\ opt[1].t = "str" THEN Some(opt[1].s) ELSE None

\* .and_then(|c| c.as_array())
AsArray(opt) == IF opt # None /\ opt[1].t = "arr" THEN Some(opt[1].kids) ELSE None

\* opt.and_then(|v| v.get(key))
AndThenGet(opt, key) == IF opt = None THEN None ELSE Get(opt[1], key)

(***************************************************************************)
(* The executor (CodexExecutor::new) and the normalized model.             *)
(***************************************************************************)
executor_type == "Codex"
codex_command ==
    "npx @openai/codex exec --dangerously-bypass-approvals-and-sandbox --skip-git-repo-check"

SystemMessage == [variant |-> "SystemMessage"]
Thinking == [variant |-> "Thinking"]
AssistantMessage == [variant |-> "AssistantMessage"]
CommandRun(cmd) == [variant |-> "CommandRun", command |-> cmd]
ToolUse(tool_name, action_type) ==
    [variant |-> "ToolUse", tool_name |-> tool_name, action_type |-> action_type]

NormalizedEntry(entry_type, content, metadata) ==
    [timestamp |-> None, entry_type |-> entry_type,
     content |-> content, metadata |-> metadata]

\* the text of a Rust string value
Str(s) == <<W(s)>>

\* the one-character text holding a backtick (U+0060)
Backtick == <<W("U+0060")>>

\* strs.join(" ")
RECURSIVE JoinSpace(_)
JoinSpace(strs) ==
    IF strs = <<>> THEN <<>>
    ELSE IF Len(strs) = 1 THEN Str(strs[1])
    ELSE Str(strs[1]) \o Str(" ") \o JoinSpace(Tail(strs))

\* .iter().filter_map(|v| v.as_str()).collect()
RECURSIVE FilterMapAsStr(_)
FilterMapAsStr(arr) ==
    IF arr = <<>> THEN <<>>
    ELSE IF Head(arr).t = "str"
         THEN <<Head(arr).s>> \o FilterMapAsStr(Tail(arr))
         ELSE FilterMapAsStr(Tail(arr))

\* command_array.first().and_then(|v| v.as_str())
FirstAsStr(arr) == IF arr = <<>> THEN None ELSE AsStr(Some(arr[1]))

(***************************************************************************)
(* The body of the loop of normalize_logs, arm by arm.  Each arm is the    *)
(* sequence of entries it pushes.                                          *)
(***************************************************************************)
\* mutant of RawOutputArm: the malformed line is dropped
RawOutputArmSilent(trimmed) == <<>>

\* Err(_) arm of from_str: the line as raw text
RawOutputArm(trimmed) ==
    <<NormalizedEntry(SystemMessage, Str("Raw output: ") \o trimmed, None)>>

\* mutant of ExtractSessionId: the slot is overwritten by every occurrence
ExtractSessionIdLast(sid, json) ==
    IF AsStr(Get(json, "session_id")) # None
    THEN Some(AsStr(Get(json, "session_id"))[1])
    ELSE sid

\* mutant of ExtractSessionId: the slot is assigned on every record
ExtractSessionIdUnguarded(sid, json) == AsStr(Get(json, "session_id"))

\* "Extract session ID if not already set"
ExtractSessionId(sid, json) ==
    IF sid = None /\ AsStr(Get(json, "session_id")) # None
    THEN Some(AsStr(Get(json, "session_id"))[1])
    ELSE sid

TaskStartedArm(json) ==
    <<NormalizedEntry(SystemMessage, Str("Task started"), Some(json))>>

AgentReasoningArm(json, msg) ==
    LET text == AsStr(Get(msg, "text")) IN
    IF text # None
    THEN <<NormalizedEntry(Thinking, Str(text[1]), Some(json))>>
    ELSE <<>>

\* mutant of ToolName: bash anywhere in the command
ToolNameAnywhere(command_array) ==
    IF \E i \in 1..Len(command_array) : command_array[i] = JStr("bash")
    THEN "bash" ELSE "shell"

\* "Map shell command to bash tool"
ToolName(command_array) ==
    IF FirstAsStr(command_array) = Some("bash") THEN "bash" ELSE "shell"

\* mutant of ExecCommandBeginArm: a command with an element that is no
\* string is not reported
ExecCommandBeginArmStrict(json, msg) ==
    LET command_array == AsArray(Get(msg, "command")) IN
    IF /\ command_array # None
       /\ \A k \in 1..Len(command_array[1]) : command_array[1][k].t = "str"
    THEN LET cmd == JoinSpace(FilterMapAsStr(command_array[1])) IN
         <<NormalizedEntry(ToolUse(ToolName(command_array[1]), CommandRun(cmd)),
                           Backtick \o cmd \o Backtick, Some(json))>>
    ELSE <<>>

ExecCommandBeginArm(json, msg) ==
    LET command_array == AsArray(Get(msg, "command")) IN
    IF command_array # None
    THEN LET cmd == JoinSpace(FilterMapAsStr(command_array[1])) IN
         <<NormalizedEntry(ToolUse(ToolName(command_array[1]), CommandRun(cmd)),
                           Backtick \o cmd \o Backtick, Some(json))>>
    ELSE <<>>

\* "Skip command end entries to avoid duplication"
ExecCommandEndArm(json) == <<>>

\* mutant of TaskCompleteArm: the completion marker first
TaskCompleteArmMarkerFirst(json, msg) ==
    LET last_message == AsStr(Get(msg, "last_agent_message")) IN
    <<NormalizedEntry(SystemMessage, Str("Task completed"), Some(json))>>
    \o (IF last_message # None
        THEN <<NormalizedEntry(AssistantMessage, Str(last_message[1]), Some(json))>>
        ELSE <<>>)

TaskCompleteArm(json, msg) ==
    LET last_message == AsStr(Get(msg, "last_agent_message")) IN
    (IF last_message # None
     THEN <<NormalizedEntry(AssistantMessage, Str(last_message[1]), Some(json))>>
     ELSE <<>>)
    \o <<NormalizedEntry(SystemMessage, Str("Task completed"), Some(json))>>

\* mutant of TokenCountArm: the record is reported like any other
TokenCountArmReported(json) ==
    <<NormalizedEntry(SystemMessage, Str("Token count"), Some(json))>>

\* "Skip token count entries"
TokenCountArm(json) == <<>>

\* mutant of UnknownTypeArm: a type that is not known is skipped
UnknownTypeArmSilent(json, msg_type) == <<>>

\* "Unknown message type, add as system message"
UnknownTypeArm(json, msg_type) ==
    <<NormalizedEntry(SystemMessage,
                      Str("Unknown message type: ") \o Str(msg_type), Some(json))>>

\* mutant of UnrecognizedArm: the entry does not keep the record
UnrecognizedArmBare(json, trimmed) ==
    <<NormalizedEntry(SystemMessage,
                      Str("Unrecognized JSON: ") \o trimmed, None)>>

\* "JSON without msg field, add as unrecognized"
UnrecognizedArm(json, trimmed) ==
    <<NormalizedEntry(SystemMessage,
                      Str("Unrecognized JSON: ") \o trimmed, Some(json))>>

\* "Process different message types based on codex jsonl format"
Dispatch(json, trimmed) ==
    LET msg == Get(json, "msg") IN
    IF msg # None
    THEN LET msg_type == AsStr(Get(msg[1], "type")) IN
         IF msg_type # None
         THEN CASE msg_type[1] = "task_started" -> TaskStartedArm(json)
                [] msg_type[1] = "agent_reasoning" -> AgentReasoningArm(json, msg[1])
                [] msg_type[1] = "exec_command_begin" -> ExecCommandBeginArm(json, msg[1])
                [] msg_type[1] = "exec_command_end" -> ExecCommandEndArm(json)
                [] msg_type[1] = "task_complete" -> TaskCompleteArm(json, msg[1])
                [] msg_type[1] = "token_count" -> TokenCountArm(json)
                [] OTHER -> UnknownTypeArm(json, msg_type[1])
         ELSE <<>>
    ELSE UnrecognizedArm(json, trimmed)

\* One iteration of the loop over logs.lines(): the entries it pushes.
LinePushes(line) ==
    LET trimmed == Trim(line) IN
    IF trimmed = <<>> THEN <<>>
    ELSE LET json == FromStr(trimmed) IN
         IF json = None THEN RawOutputArm(trimmed)
         ELSE Dispatch(json[1], trimmed)

\* mutant of LineSession: the session id is looked for after the dispatch,
\* which a record that pushes nothing does not reach
LineSessionIfPushed(line, sid) ==
    LET trimmed == Trim(line) IN
    IF trimmed = <<>> THEN sid
    ELSE LET json == FromStr(trimmed) IN
         IF json = None \/ LinePushes(line) = <<>> THEN sid
         ELSE ExtractSessionId(sid, json[1])

\* One iteration: the session id slot after it.
LineSession(line, sid) ==
    LET trimmed == Trim(line) IN
    IF trimmed = <<>> THEN sid
    ELSE LET json == FromStr(trimmed) IN
         IF json = None THEN sid
         ELSE ExtractSessionId(sid, json[1])

\* Ok(NormalizedConversation { .. })
Conversation(es, sid) ==
    [ok |-> TRUE,
     entries |-> es, session_id |-> sid, executor_type |-> executor_type,
     prompt |-> None, summary |-> None]

(***************************************************************************)
(* Inputs: the lines of the agent's output, in its wire format.            *)
(***************************************************************************)
RECURSIVE SepBy(_, _)
SepBy(parts, sep) ==
    IF parts = <<>> THEN <<>>
    ELSE IF Len(parts) = 1 THEN parts[1]
    ELSE parts[1] \o <<sep>> \o SepBy(Tail(parts), sep)

\* the text { members } of an object, [ elems ] of an array, "key": value
ObjText(members) == <<P("{")>> \o SepBy(members, P(",")) \o <<P("}")>>
ArrText(elems) == <<P("[")>> \o SepBy(elems, P(",")) \o <<P("]")>>
KV(key, val) == <<S(key), P(":")>> \o val

\* {"msg":{"type":<type>, <fields>}}
MsgText(type, fields) ==
    ObjText(<<KV("msg", ObjText(<<KV("type", <<S(type)>>)>> \o fields))>>)
\* {"session_id":<sid>,"msg":{"type":<type>}}
SessionMsgText(sid, type) ==
    ObjText(<<KV("session_id", sid), KV("msg", ObjText(<<KV("type", <<S(type)>>)>>))>>)

\* lines that are no JSON: blank, plain text, a truncated record
RawLines ==
    { <<WS>>,
      <<WS, W("invalid"), WS, W("json"), WS>>,
      <<P("{"), S("session_id"), P(":"), S("s0")>> }

\* records with a top-level session_id
SessionLines ==
    { <<WS>> \o SessionMsgText(<<S("s1")>>, "task_started"),
      SessionMsgText(<<S("s2")>>, "token_count"),
      SessionMsgText(<<N("7")>>, "exec_command_end"),
      ObjText(<<KV("id", <<S("1")>>), KV("session_id", <<S("s3")>>)>>) }

\* records of the message types, with and without their fields
MessageLines ==
    { MsgText("agent_reasoning", <<KV("text", <<S("Inspecting")>>)>>),
      MsgText("agent_reasoning", <<>>),
      MsgText("exec_command_begin",
              <<KV("command", ArrText(<<<<S("bash")>>, <<S("-lc")>>, <<S("ls")>>>>))>>),
      MsgText("exec_command_begin",
              <<KV("command", ArrText(<<<<S("sh")>>, <<S("bash")>>>>))>>),
      MsgText("exec_command_begin", <<KV("command", ArrText(<<>>))>>),
      MsgText("exec_command_begin",
              <<KV("command", ArrText(<<<<N("7")>>, <<S("bash")>>>>))>>),
      MsgText("exec_command_begin", <<KV("command", <<S("bash")>>)>>),
      MsgText("task_complete", <<KV("last_agent_message", <<S("Done!")>>)>>),
      MsgText("task_complete", <<KV("last_agent_message", <<L("null")>>)>>),
      MsgText("task_complete", <<KV("last_agent_message", <<N("7")>>)>>),
      MsgText("task_complete", <<>>),
      MsgText("turn_diff", <<>>) }

\* JSON that is no record of the wire format
OddLines ==
    { <<N("42")>>,
      ObjText(<<KV("msg", ObjText(<<KV("type", <<N("7")>>)>>))>>) }

Catalogue == RawLines \cup SessionLines \cup MessageLines \cup OddLines

\* records that hold a session id and push nothing, or nothing of the known
\* kinds; and exec_command_begin records with commands of every shape
ShapeLines ==
    { <<WS>> \o SessionMsgText(<<S("s1")>>, "task_started"),
      SessionMsgText(<<S("s2")>>, "token_count"),
      SessionMsgText(<<S("s4")>>, "exec_command_end"),
      SessionMsgText(<<S("s5")>>, "agent_reasoning"),
      SessionMsgText(<<S("s6")>>, "turn_diff"),
      ObjText(<<KV("session_id", <<S("s7")>>)>>),
      MsgText("exec_command_begin", <<>>),
      MsgText("exec_command_begin", <<KV("command", ArrText(<<>>))>>),
      MsgText("exec_command_begin",
              <<KV("command", ArrText(<<<<S("bash")>>, <<N("7")>>, <<S("-lc")>>>>))>>),
      MsgText("exec_command_begin",
              <<KV("command", ArrText(<<<<N("7")>>, <<S("bash")>>, <<L("null")>>,
                                        <<S("ls")>>>>))>>),
      MsgText("exec_command_begin",
              <<KV("command", ArrText(<<ArrText(<<<<S("bash")>>>>)>>))>>),
      MsgText("exec_command_begin",
              <<KV("command", ObjText(<<KV("0", <<S("bash")>>)>>))>>) }

(***************************************************************************)
(* The loop body reads nothing but the line and the session slot, so what  *)
(* it parses and pushes is tabulated once per line of the catalogue.       *)
(***************************************************************************)
\* serde_json::from_str(line.trim()), line by line
JsonOf == [l \in Catalogue \cup ShapeLines |-> FromStr(Trim(l))]
\* the entries one iteration pushes, line by line
PushesOf == [l \in Catalogue \cup ShapeLines |-> LinePushes(l)]
\* the session id slot after one iteration on the line
SessionAfter(line, sid) ==
    IF JsonOf[line] = None THEN sid ELSE LineSession(line, sid)

\* the entries normalize_logs returns for the lines ls, as a function of them
RECURSIVE NormalizeEntries(_)
NormalizeEntries(ls) ==
    IF ls = <<>> THEN <<>> ELSE PushesOf[Head(ls)] \o NormalizeEntries(Tail(ls))

\* the session id normalize_logs returns for the lines ls, from the slot sid
RECURSIVE NormalizeSession(_, _)
NormalizeSession(ls, sid) ==
    IF ls = <<>> THEN sid ELSE NormalizeSession(Tail(ls), SessionAfter(Head(ls), sid))

MaxLines == 3

SeqsUpTo(set, n) == UNION { [1..m -> set] : m \in 0..n }

\* the input texts: up to MaxLines lines of the catalogue, newline-separated
Inputs == { SepBy(ls, NL) : ls \in SeqsUpTo(Catalogue, MaxLines) }

(***************************************************************************)
(* State: the calls of normalize_logs.  Call c is one activation: its      *)
(* position (pc), the lines iterator (lines, idx) and its locals.          *)
(***************************************************************************)
Calls == {"a", "b"}

VARIABLES
    pc,          \* "idle", "scan" (in the loop), "done" (returned)
    lines,       \* logs.lines()
    idx,         \* number of lines the loop has consumed
    entries,     \* let mut entries
    session_id,  \* let mut session_id
    origin,      \* for each entry, the number of the line that pushed it
    result,      \* the returned value, once returned
    shell,       \* the host's (shell_cmd, shell_arg)
    lpc,         \* launcher calls: "idle", "lookup", "start", "returned"
    largs,       \* the operation called and its arguments
    found,       \* what Task::find_by_id answered, once it has
    command,     \* let mut command = CommandRunner::new(), as configured
    starts,      \* the start requests the call has made of the process runner
    outcome      \* the value the launcher call returned, once returned

norm_vars == <<pc, lines, idx, entries, session_id, origin, result>>
launch_vars == <<shell, lpc, largs, found, command, starts, outcome>>
vars == <<norm_vars, launch_vars>>

LaunchCalls == {"p", "q"}

\* CommandRunner::new()
NewCommand ==
    [program |-> "", args |-> <<>>, stdin |-> <<>>, working_dir |-> "", env |-> {}]

NoArgs ==
    [op |-> "", task_id |-> "", session_id |-> "", prompt |-> "", worktree_path |-> ""]

\* get_shell_command(): sh -c on Unix, cmd /C on Windows
ShellCommands == { <<"sh", "-c">>, <<"cmd", "/C">> }

LaunchersIdle ==
    /\ lpc = [f \in LaunchCalls |-> "idle"]
    /\ largs = [f \in LaunchCalls |-> NoArgs]
    /\ found = [f \in LaunchCalls |-> None]
    /\ command = [f \in LaunchCalls |-> NewCommand]
    /\ starts = [f \in LaunchCalls |-> <<>>]
    /\ outcome = [f \in LaunchCalls |-> None]

Init ==
    /\ shell = <<"sh", "-c">>
    /\ LaunchersIdle
    /\ pc = [c \in Calls |-> "idle"]
    /\ lines = [c \in Calls |-> <<>>]
    /\ idx = [c \in Calls |-> 0]
    /\ entries = [c \in Calls |-> <<>>]
    /\ session_id = [c \in Calls |-> None]
    /\ origin = [c \in Calls |-> <<>>]
    /\ result = [c \in Calls |-> None]

\* let mut entries = Vec::new();
NewEntries(c) == <<>>
\* mutant of NewSessionId: the slot outlives the call
NewSessionIdKept(c) == session_id[c]

\* mutant of NewSessionId: one slot for all the calls of the process
NewSessionIdShared(c) == session_id[CHOOSE d \in Calls : d # c]

\* let mut session_id = None;
NewSessionId(c) == None

\* normalize_logs is entered with a text of inputs as its logs
Call(c, inputs) ==
    /\ pc[c] # "scan"
    /\ \E logs \in inputs :
        /\ pc' = [pc EXCEPT ![c] = "scan"]
        /\ lines' = [lines EXCEPT ![c] = Lines(logs)]
        /\ idx' = [idx EXCEPT ![c] = 0]
        /\ entries' = [entries EXCEPT ![c] = NewEntries(c)]
        /\ session_id' = [session_id EXCEPT ![c] = NewSessionId(c)]
        /\ origin' = [origin EXCEPT ![c] = <<>>]
        /\ result' = [result EXCEPT ![c] = None]
        /\ UNCHANGED launch_vars

\* mutant of Push: insertion at the front
PushFront(vec, pushed) == pushed \o vec

\* mutant of Push: a line that pushes nothing takes the last entry back
PushRetracting(vec, pushed) ==
    IF pushed = <<>> /\ vec # <<>> THEN SubSeq(vec, 1, Len(vec) - 1) ELSE vec \o pushed

\* entries.push(..), for each element of pushed in turn
Push(vec, pushed) == vec \o pushed

\* mutant of Iterate: the arms that skip a record leave the loop (break for
\* continue)
IterateBreaking(c) ==
    /\ pc[c] = "scan"
    /\ idx[c] < Len(lines[c])
    /\ LET line == lines[c][idx[c] + 1]
           pushed == PushesOf[line]
       IN /\ entries' = [entries EXCEPT ![c] = Push(@, pushed)]
          /\ origin' = [origin EXCEPT ![c] =
                            Push(@, [i \in 1..Len(pushed) |-> idx[c] + 1])]
          /\ session_id' = [session_id EXCEPT ![c] = SessionAfter(line, @)]
          /\ idx' = [idx EXCEPT ![c] =
                        IF JsonOf[line] # None /\ pushed = <<>>
                        THEN Len(lines[c]) ELSE @ + 1]
    /\ UNCHANGED <<pc, lines, result, launch_vars>>

\* one iteration of the loop, on the next line
Iterate(c) ==
    /\ pc[c] = "scan"
    /\ idx[c] < Len(lines[c])
    /\ LET line == lines[c][idx[c] + 1]
           pushed == PushesOf[line]
       IN /\ entries' = [entries EXCEPT ![c] = Push(@, pushed)]
          /\ origin' = [origin EXCEPT ![c] =
                            Push(@, [i \in 1..Len(pushed) |-> idx[c] + 1])]
          /\ session_id' = [session_id EXCEPT ![c] = SessionAfter(line, @)]
    /\ idx' = [idx EXCEPT ![c] = @ + 1]
    /\ UNCHANGED <<pc, lines, result, launch_vars>>

\* the loop is over: Ok(NormalizedConversation { .. })
Return(c) ==
    /\ pc[c] = "scan"
    /\ idx[c] = Len(lines[c])
    /\ pc' = [pc EXCEPT ![c] = "done"]
    /\ result' = [result EXCEPT ![c] = Some(Conversation(entries[c], session_id[c]))]
    /\ UNCHANGED <<lines, idx, entries, session_id, origin, launch_vars>>

\* one call, on any input
Next ==
    \/ pc["a"] = "idle" /\ Call("a", Inputs)
    \/ Iterate("a")
    \/ Return("a")

Spec == Init /\ [][Next]_vars

(***************************************************************************)
(* Two callers, each calling normalize_logs again and again, their loops   *)
(* interleaved line by line.                                               *)
(***************************************************************************)
ConcurrentLines ==
    { <<WS>> \o SessionMsgText(<<S("s1")>>, "task_started"),
      SessionMsgText(<<S("s2")>>, "token_count"),
      MsgText("task_complete", <<KV("last_agent_message", <<S("Done!")>>)>>) }

MaxConcurrentLines == 2

ConcurrentInputs ==
    { SepBy(ls, NL) : ls \in SeqsUpTo(ConcurrentLines, MaxConcurrentLines) }

NextConcurrent ==
    \E c \in Calls :
        \/ Call(c, ConcurrentInputs)
        \/ Iterate(c)
        \/ Return(c)

SpecConcurrent == Init /\ [][NextConcurrent]_vars

(***************************************************************************)
(* One call on records of unusual shape.                                   *)
(***************************************************************************)
MaxShapeLines == 3

ShapeInputs == { SepBy(ls, NL) : ls \in SeqsUpTo(ShapeLines, MaxShapeLines) }

NextShapes ==
    \/ pc["a"] = "idle" /\ Call("a", ShapeInputs)
    \/ Iterate("a")
    \/ Return("a")

SpecShapes == Init /\ [][NextShapes]_vars

(***************************************************************************)
(* The launchers: spawn and spawn_followup.                                *)
(* Their collaborators (the task store, the shell resolution, the process  *)
(* runner and the error context) are outside this file; they are modelled  *)
(* by their contracts.  Strings built by format! are sequences of pieces.  *)
(***************************************************************************)
TaskIds == {"t1", "t2", "t3"}
Worktrees == {"/wt/a", "/wt/b"}
SessionIds == {"sess-1", "sess-2"}
Prompts == {"continue", "add tests"}

\* the task store: t1 has a description, t2 has none, t3 does not resolve
TaskStore ==
    [t \in TaskIds |->
        CASE t = "t1" -> Some([project_id |-> "p1", title |-> "Fix login",
                               description |-> Some("Users cannot log in")])
          [] t = "t2" -> Some([project_id |-> "p2", title |-> "Add tests",
                               description |-> None])
          [] OTHER -> None]

\* Task::find_by_id(pool, task_id): the optional task record, or a failure
\* of the store
FindById(task_id) ==
    { [ok |-> TRUE, task |-> TaskStore[task_id]], [ok |-> FALSE, task |-> None] }

\* mutant of TaskOrNotFound: a missing task is replaced by an empty one
TaskOrDefault(answer) ==
    IF ~answer.ok THEN [ok |-> FALSE, error |-> "DatabaseError", task |-> None]
    ELSE IF answer.task = None
    THEN [ok |-> TRUE, error |-> "",
          task |-> Some([project_id |-> "", title |-> "", description |-> None])]
    ELSE [ok |-> TRUE, error |-> "", task |-> answer.task]

\* .await?.ok_or(ExecutorError::TaskNotFound)?
TaskOrNotFound(answer) ==
    IF ~answer.ok THEN [ok |-> FALSE, error |-> "DatabaseError", task |-> None]
    ELSE IF answer.task = None
    THEN [ok |-> FALSE, error |-> "TaskNotFound", task |-> None]
    ELSE [ok |-> TRUE, error |-> "", task |-> answer.task]

\* let prompt = if let Some(task_description) = task.description { .. }
SpawnPrompt(task) ==
    IF task.description # None
    THEN <<"project_id: ", task.project_id, "\n            \nTask title: ", task.title,
           "\nTask description: ", task.description[1]>>
    ELSE <<"project_id: ", task.project_id, "\n            \nTask title: ", task.title>>

\* mutant of SpawnCommand: the prompt is passed as arguments of the command
SpawnCommandPromptArg(prompt, worktree_path) ==
    [program |-> shell[1],
     args |-> <<shell[2], codex_command>> \o prompt,
     stdin |-> <<>>,
     working_dir |-> worktree_path,
     env |-> {<<"NODE_NO_WARNINGS", "1">>, <<"RUST_LOG", "info">>}]

\* the builder calls of spawn
SpawnCommand(prompt, worktree_path) ==
    [program |-> shell[1],
     args |-> <<shell[2], codex_command>>,
     stdin |-> prompt,
     working_dir |-> worktree_path,
     env |-> {<<"NODE_NO_WARNINGS", "1">>, <<"RUST_LOG", "info">>}]

\* mutant of FollowupCommand: the session is resumed by a flag
FollowupCommandResuming(sid, prompt, worktree_path) ==
    [program |-> shell[1],
     args |-> <<shell[2], codex_command, "--session", sid>>,
     stdin |-> prompt,
     working_dir |-> worktree_path,
     env |-> {<<"NODE_NO_WARNINGS", "1">>, <<"RUST_LOG", "info">>}]

\* the builder calls of spawn_followup
FollowupCommand(sid, prompt, worktree_path) ==
    [program |-> shell[1],
     args |-> <<shell[2], codex_command>>,
     stdin |-> prompt,
     working_dir |-> worktree_path,
     env |-> {<<"NODE_NO_WARNINGS", "1">>, <<"RUST_LOG", "info">>}]

\* mutant of StartRequests: a failed start is tried once more
StartRequestsRetried(cmd, ok) ==
    IF ok THEN <<[command |-> cmd, ok |-> TRUE]>>
    ELSE <<[command |-> cmd, ok |-> FALSE], [command |-> cmd, ok |-> FALSE]>>

\* command.start().await: the requests made of the process runner, the
\* runner answering ok or not
StartRequests(cmd, ok) == <<[command |-> cmd, ok |-> ok]>>

\* Ok(proc)
Started(cmd) ==
    [ok |-> TRUE, error |-> "", proc |-> Some(cmd), context |-> None]

\* Err(e) of the lookup
Failed(error) ==
    [ok |-> FALSE, error |-> error, proc |-> None, context |-> None]

\* SpawnContext::from_command(..).with_task(..).with_context(..).spawn_error(e)
SpawnError(cmd, task_id, task_title, context) ==
    [ok |-> FALSE, error |-> "SpawnError", proc |-> None,
     context |-> Some([command |-> cmd, executor_type |-> executor_type,
                       task_id |-> task_id, task_title |-> task_title,
                       context |-> context])]

\* spawn is called
SpawnCall(f) ==
    /\ lpc[f] \in {"idle", "returned"}
    /\ \E task_id \in TaskIds, worktree_path \in Worktrees :
          largs' = [largs EXCEPT ![f] =
                      [op |-> "spawn", task_id |-> task_id, session_id |-> "",
                       prompt |-> "", worktree_path |-> worktree_path]]
    /\ lpc' = [lpc EXCEPT ![f] = "lookup"]
    /\ found' = [found EXCEPT ![f] = None]
    /\ command' = [command EXCEPT ![f] = NewCommand]
    /\ starts' = [starts EXCEPT ![f] = <<>>]
    /\ outcome' = [outcome EXCEPT ![f] = None]
    /\ UNCHANGED <<shell, norm_vars>>

\* spawn resumes with the answer of the task store: it returns the error,
\* or builds the prompt and the command
SpawnLookup(f) ==
    /\ lpc[f] = "lookup"
    /\ \E answer \in FindById(largs[f].task_id) :
          /\ found' = [found EXCEPT ![f] = Some(answer)]
          /\ LET r == TaskOrNotFound(answer) IN
             IF r.ok
             THEN /\ command' = [command EXCEPT ![f] =
                        SpawnCommand(SpawnPrompt(r.task[1]), largs[f].worktree_path)]
                  /\ lpc' = [lpc EXCEPT ![f] = "start"]
                  /\ UNCHANGED outcome
             ELSE /\ outcome' = [outcome EXCEPT ![f] = Some(Failed(r.error))]
                  /\ lpc' = [lpc EXCEPT ![f] = "returned"]
                  /\ UNCHANGED command
    /\ UNCHANGED <<shell, largs, starts, norm_vars>>

\* spawn asks the process runner to start the command and returns
SpawnStart(f) ==
    /\ lpc[f] = "start"
    /\ largs[f].op = "spawn"
    /\ \E ok \in BOOLEAN :
          /\ starts' = [starts EXCEPT ![f] = @ \o StartRequests(command[f], ok)]
          /\ outcome' = [outcome EXCEPT ![f] =
                IF ok THEN Some(Started(command[f]))
                ELSE Some(SpawnError(command[f], Some(largs[f].task_id),
                                     Some(TaskOrNotFound(found[f][1]).task[1].title),
                                     <<executor_type, " CLI execution for new task">>))]
    /\ lpc' = [lpc EXCEPT ![f] = "returned"]
    /\ UNCHANGED <<shell, largs, found, command, norm_vars>>

\* spawn_followup is called and builds the command
FollowupCall(f) ==
    /\ lpc[f] \in {"idle", "returned"}
    /\ \E task_id \in TaskIds, sid \in SessionIds, prompt \in Prompts,
          worktree_path \in Worktrees :
          /\ largs' = [largs EXCEPT ![f] =
                        [op |-> "spawn_followup", task_id |-> task_id, session_id |-> sid,
                         prompt |-> prompt, worktree_path |-> worktree_path]]
          /\ command' = [command EXCEPT ![f] =
                            FollowupCommand(sid, <<prompt>>, worktree_path)]
    /\ lpc' = [lpc EXCEPT ![f] = "start"]
    /\ found' = [found EXCEPT ![f] = None]
    /\ starts' = [starts EXCEPT ![f] = <<>>]
    /\ outcome' = [outcome EXCEPT ![f] = None]
    /\ UNCHANGED <<shell, norm_vars>>

\* spawn_followup asks the process runner to start the command and returns
FollowupStart(f) ==
    /\ lpc[f] = "start"
    /\ largs[f].op = "spawn_followup"
    /\ \E ok \in BOOLEAN :
          /\ starts' = [starts EXCEPT ![f] = @ \o StartRequests(command[f], ok)]
          /\ outcome' = [outcome EXCEPT ![f] =
                IF ok THEN Some(Started(command[f]))
                ELSE Some(SpawnError(command[f], None, None,
                                     <<executor_type, " CLI followup execution for session ",
                                       largs[f].session_id>>))]
    /\ lpc' = [lpc EXCEPT ![f] = "returned"]
    /\ UNCHANGED <<shell, largs, found, command, norm_vars>>

InitLaunch ==
    /\ shell \in ShellCommands
    /\ LaunchersIdle
    /\ pc = [c \in Calls |-> "idle"]
    /\ lines = [c \in Calls |-> <<>>]
    /\ idx = [c \in Calls |-> 0]
    /\ entries = [c \in Calls |-> <<>>]
    /\ session_id = [c \in Calls |-> None]
    /\ origin = [c \in Calls |-> <<>>]
    /\ result = [c \in Calls |-> None]

NextLaunch ==
    \E f \in LaunchCalls :
        \/ SpawnCall(f)
        \/ SpawnLookup(f)
        \/ SpawnStart(f)
        \/ FollowupCall(f)
        \/ FollowupStart(f)

\* two callers of the launchers, on a host of either kind
SpecLaunch == InitLaunch /\ [][NextLaunch]_vars

(***************************************************************************)
(* Vocabulary of the properties.                                           *)
(***************************************************************************)
\* the record a line holds, if it parses
Parsed(line) == JsonOf[line]
\* a non-empty line that does not parse as JSON
NonJson(line) == Trim(line) # <<>> /\ Parsed(line) = None
\* msg.<field> of the line's record
MsgField(line, field) ==
    IF Parsed(line) = None THEN None
    ELSE AndThenGet(Get(Parsed(line)[1], "msg"), field)
\* msg.type of the line's record, when a string
MsgType(line) == AsStr(MsgField(line, "type"))
\* the top-level session_id field of the line's record
SessionField(line) ==
    IF Parsed(line) = None THEN None ELSE Get(Parsed(line)[1], "session_id")

\* the positions in entries[c] of the entries pushed by line i of call c
EntriesOf(c, i) == { j \in 1..Len(entries[c]) : origin[c][j] = i }
\* those entries, in their order in entries[c]
PushedBy(c, i) ==
    LET js == EntriesOf(c, i) IN
    [k \in 1..Cardinality(js) |->
        entries[c][CHOOSE j \in js : Cardinality({m \in js : m < j}) = k - 1]]

Min(set) == CHOOSE x \in set : \A y \in set : x <= y

\* the call has returned Ok(conversation) holding its entries and session id
ReturnedOk(c) ==
    /\ idx[c] = Len(lines[c])
    /\ result[c] # None
    /\ result[c][1].ok
    /\ result[c][1].entries = entries[c]
    /\ result[c][1].session_id = session_id[c]

(***************************************************************************)
(* C1.  normalize_logs returns Ok for every input, having consumed every   *)
(* line; and every non-empty line that is not JSON has pushed exactly one  *)
(* entry: SystemMessage, content "Raw output: " followed by the trimmed    *)
(* line, no metadata.                                                      *)
(***************************************************************************)
C1_RawOutput ==
    \A c \in Calls :
        /\ pc[c] = "done" => ReturnedOk(c)
        /\ \A i \in 1..idx[c] :
              NonJson(lines[c][i]) =>
                  PushedBy(c, i) =
                      << [timestamp |-> <<>>,
                          entry_type |-> [variant |-> "SystemMessage"],
                          content |-> <<W("Raw output: ")>> \o Trim(lines[c][i]),
                          metadata |-> <<>>] >>

\* a call has returned after a non-JSON line that was followed by a line
\* that pushed entries of its own
C1_Witness ==
    \E c \in Calls :
        /\ pc[c] = "done"
        /\ \E i \in 1..(Len(lines[c]) - 1) :
              /\ NonJson(lines[c][i])
              /\ Trim(lines[c][i]) # lines[c][i]
              /\ EntriesOf(c, i + 1) # {}

(***************************************************************************)
(* C2 as stated.  The returned session_id is the value of the session_id   *)
(* field of the first line that has a top-level session_id field, and is   *)
(* absent iff no line has such a field.                                    *)
(***************************************************************************)
C2_FirstSessionField ==
    \A c \in Calls :
        pc[c] = "done" =>
            LET with == { i \in 1..Len(lines[c]) : SessionField(lines[c][i]) # None }
                sid == result[c][1].session_id
            IN IF with = {} THEN sid = None
               ELSE /\ sid # None
                    /\ JStr(sid[1]) = SessionField(lines[c][Min(with)])[1]

(***************************************************************************)
(* C2 amended.  The returned session_id is the value of the session_id     *)
(* field of the first line whose top-level session_id field is a string,   *)
(* and is absent iff no line has such a string field; later lines do not   *)
(* change it.                                                              *)
(***************************************************************************)
C2_FirstStringSessionField ==
    \A c \in Calls :
        pc[c] = "done" =>
            LET with == { i \in 1..Len(lines[c]) :
                            AsStr(SessionField(lines[c][i])) # None }
                sid == result[c][1].session_id
            IN IF with = {} THEN sid = None
               ELSE sid = AsStr(SessionField(lines[c][Min(with)]))

\* a call has returned the session id of its second line, after a line whose
\* session_id is no string and before a line with another session id
C2_Witness ==
    \E c \in Calls :
        /\ pc[c] = "done"
        /\ Len(lines[c]) = 3
        /\ SessionField(lines[c][1]) # None
        /\ AsStr(SessionField(lines[c][1])) = None
        /\ AsStr(SessionField(lines[c][2])) # None
        /\ AsStr(SessionField(lines[c][3])) # None
        /\ AsStr(SessionField(lines[c][3])) # AsStr(SessionField(lines[c][2]))
        /\ result[c][1].session_id = AsStr(SessionField(lines[c][2]))

(***************************************************************************)
(* C3.  A line whose msg.type is exec_command_end or token_count pushes no *)
(* entry, and the returned entries are those of the same input with every  *)
(* such line removed.                                                      *)
(***************************************************************************)
Suppressed(line) ==
    MsgType(line) \in {Some("exec_command_end"), Some("token_count")}

Strip(ls) == SelectSeq(ls, LAMBDA l : ~Suppressed(l))

C3_SuppressedTypes ==
    \A c \in Calls :
        /\ \A i \in 1..idx[c] : Suppressed(lines[c][i]) => EntriesOf(c, i) = {}
        /\ pc[c] = "done" =>
              result[c][1].entries = NormalizeEntries(Strip(lines[c]))

\* a call has returned whose input has a suppressed line between two lines
\* that pushed entries
C3_Witness ==
    \E c \in Calls :
        /\ pc[c] = "done"
        /\ Len(lines[c]) = 3
        /\ Suppressed(lines[c][2])
        /\ EntriesOf(c, 1) # {}
        /\ EntriesOf(c, 3) # {}
        /\ Len(entries[c]) = Cardinality(EntriesOf(c, 1)) + Cardinality(EntriesOf(c, 3))

(***************************************************************************)
(* C4.  An exec_command_begin record whose msg.command is an array of      *)
(* strings pushes exactly one entry: ToolUse, tool_name "bash" iff the     *)
(* first element is exactly "bash" and "shell" otherwise, action           *)
(* CommandRun of the elements joined by single spaces, content that        *)
(* command between backticks.                                              *)
(***************************************************************************)
IsStringArray(opt) ==
    /\ opt # None
    /\ opt[1].t = "arr"
    /\ \A k \in 1..Len(opt[1].kids) : opt[1].kids[k].t = "str"

ExecBeginOfStrings(line) ==
    /\ MsgType(line) = Some("exec_command_begin")
    /\ IsStringArray(MsgField(line, "command"))

\* the elements of an array of strings, each followed by one space but the last
SpaceJoined(arr) ==
    [k \in 1..(IF arr = <<>> THEN 0 ELSE 2 * Len(arr) - 1) |->
        IF k % 2 = 1 THEN W(arr[(k + 1) \div 2].s) ELSE W(" ")]

C4_ExecCommandBegin ==
    \A c \in Calls :
        \A i \in 1..idx[c] :
            ExecBeginOfStrings(lines[c][i]) =>
                LET arr == MsgField(lines[c][i], "command")[1].kids
                    es == PushedBy(c, i)
                IN /\ Len(es) = 1
                   /\ es[1].entry_type =
                        [variant |-> "ToolUse",
                         tool_name |-> IF arr # <<>> /\ arr[1] = JStr("bash")
                                       THEN "bash" ELSE "shell",
                         action_type |-> [variant |-> "CommandRun",
                                          command |-> SpaceJoined(arr)]]
                   /\ es[1].content = Backtick \o SpaceJoined(arr) \o Backtick

\* a call has returned that saw a command starting with bash, and a command
\* holding bash elsewhere, each reported with its tool
C4_Witness ==
    \E c \in Calls :
        /\ pc[c] = "done"
        /\ \E i, j \in 1..Len(lines[c]) :
              /\ ExecBeginOfStrings(lines[c][i])
              /\ ExecBeginOfStrings(lines[c][j])
              /\ PushedBy(c, i)[1].entry_type.tool_name = "bash"
              /\ PushedBy(c, j)[1].entry_type.tool_name = "shell"
              /\ \E k \in 2..Len(MsgField(lines[c][j], "command")[1].kids) :
                    MsgField(lines[c][j], "command")[1].kids[k] = JStr("bash")

(***************************************************************************)
(* C5 as stated.  A task_complete record in which last_agent_message is    *)
(* present (a member of msg, not null) pushes exactly two entries, an      *)
(* AssistantMessage carrying the message and then the SystemMessage        *)
(* "Task completed"; a record without it pushes the SystemMessage alone.   *)
(***************************************************************************)
TaskComplete(line) == MsgType(line) = Some("task_complete")

LastMessagePresent(line) ==
    /\ MsgField(line, "last_agent_message") # None
    /\ MsgField(line, "last_agent_message")[1] # JLit("null")

\* entry e is of the given variant and has the given content
Is(e, variant, content) ==
    e.entry_type = [variant |-> variant] /\ e.content = content

C5_TaskCompletePresent ==
    \A c \in Calls :
        \A i \in 1..idx[c] :
            TaskComplete(lines[c][i]) =>
                LET es == PushedBy(c, i) IN
                IF LastMessagePresent(lines[c][i])
                THEN /\ Len(es) = 2
                     /\ es[1].entry_type = [variant |-> "AssistantMessage"]
                     /\ Is(es[2], "SystemMessage", <<W("Task completed")>>)
                ELSE /\ Len(es) = 1
                     /\ Is(es[1], "SystemMessage", <<W("Task completed")>>)

(***************************************************************************)
(* C5 amended.  A task_complete record in which last_agent_message is a    *)
(* string pushes exactly two adjacent entries, an AssistantMessage         *)
(* carrying that string and then the SystemMessage "Task completed"; when  *)
(* last_agent_message is missing or is not a string, the SystemMessage     *)
(* alone.                                                                  *)
(***************************************************************************)
C5_TaskCompleteString ==
    \A c \in Calls :
        \A i \in 1..idx[c] :
            TaskComplete(lines[c][i]) =>
                LET es == PushedBy(c, i)
                    m == MsgField(lines[c][i], "last_agent_message")
                IN IF m # None /\ m[1].t = "str"
                   THEN /\ Len(es) = 2
                        /\ Is(es[1], "AssistantMessage", <<W(m[1].s)>>)
                        /\ Is(es[2], "SystemMessage", <<W("Task completed")>>)
                        /\ \E j \in EntriesOf(c, i) : EntriesOf(c, i) = {j, j + 1}
                   ELSE /\ Len(es) = 1
                        /\ Is(es[1], "SystemMessage", <<W("Task completed")>>)

\* a call has returned that saw a task_complete with a string message, one
\* with a message that is no string, and one without a message
C5_Witness ==
    \E c \in Calls :
        /\ pc[c] = "done"
        /\ \E i, j, k \in 1..Len(lines[c]) :
              /\ TaskComplete(lines[c][i]) /\ TaskComplete(lines[c][j])
              /\ TaskComplete(lines[c][k])
              /\ AsStr(MsgField(lines[c][i], "last_agent_message")) # None
              /\ LastMessagePresent(lines[c][j])
              /\ AsStr(MsgField(lines[c][j], "last_agent_message")) = None
              /\ MsgField(lines[c][k], "last_agent_message") = None
              /\ Len(entries[c]) = 4

(***************************************************************************)
(* C6.  Entries are in the order of the lines that pushed them; two        *)
(* entries come from one line only when it is a task_complete record; no   *)
(* line pushes more than two entries.                                      *)
(***************************************************************************)
C6_EntryOrder ==
    \A c \in Calls :
        /\ Len(origin[c]) = Len(entries[c])
        /\ \A i, j \in 1..Len(entries[c]) :
              i < j =>
                  /\ origin[c][i] <= origin[c][j]
                  /\ origin[c][i] = origin[c][j] => TaskComplete(lines[c][origin[c][i]])
        /\ \A n \in 1..idx[c] : Cardinality(EntriesOf(c, n)) <= 2
        /\ \A j \in 1..Len(entries[c]) :
              /\ origin[c][j] \in 1..idx[c]
              /\ \E k \in 1..Len(PushesOf[lines[c][origin[c][j]]]) :
                    entries[c][j] = PushesOf[lines[c][origin[c][j]]][k]

\* a call has returned entries of three lines, two of them of one
\* task_complete line that is not the last
C6_Witness ==
    \E c \in Calls :
        /\ pc[c] = "done"
        /\ Len(lines[c]) = 3
        /\ Cardinality(EntriesOf(c, 1)) = 1
        /\ Cardinality(EntriesOf(c, 2)) = 2
        /\ Cardinality(EntriesOf(c, 3)) = 1
        /\ entries[c][1] # entries[c][4]

(***************************************************************************)
(* C7.  Two calls of normalize_logs on the same input that have consumed   *)
(* the same number of lines hold the same entries and the same session id, *)
(* and return the same conversation, whatever either caller normalized     *)
(* before.                                                                 *)
(***************************************************************************)
C7_Deterministic ==
    \A c, d \in Calls :
        (/\ pc[c] # "idle" /\ pc[d] # "idle"
         /\ lines[c] = lines[d]
         /\ idx[c] = idx[d])
        => /\ entries[c] = entries[d]
           /\ session_id[c] = session_id[d]
           /\ (pc[c] = "done" /\ pc[d] = "done") => result[c] = result[d]

\* both calls have returned on the same two-line input, which holds a
\* session id and pushes entries
C7_Witness ==
    /\ pc["a"] = "done" /\ pc["b"] = "done"
    /\ lines["a"] = lines["b"]
    /\ Len(lines["a"]) = 2
    /\ result["a"][1].session_id # None
    /\ Len(result["a"][1].entries) >= 2

(***************************************************************************)
(* C8.  A spawn whose task identifier does not resolve in the task store   *)
(* (find_by_id answers with no task) returns TaskNotFound and has asked    *)
(* the process runner for no start; nor has any spawn that failed at the   *)
(* lookup.                                                                 *)
(***************************************************************************)
C8_TaskNotFound ==
    \A f \in LaunchCalls :
        /\ (/\ largs[f].op = "spawn"
            /\ TaskStore[largs[f].task_id] = None
            /\ found[f] # None /\ found[f][1].ok)
           => /\ lpc[f] = "returned"
              /\ outcome[f] = Some([ok |-> FALSE, error |-> "TaskNotFound",
                                    proc |-> None, context |-> None])
              /\ starts[f] = <<>>
              /\ command[f] = NewCommand
        /\ (outcome[f] # None /\ outcome[f][1].error \in {"TaskNotFound", "DatabaseError"})
           => starts[f] = <<>>

\* one spawn has returned TaskNotFound while the other call has had a
\* process started
C8_Witness ==
    \E f, g \in LaunchCalls :
        /\ largs[f].op = "spawn"
        /\ outcome[f] # None /\ outcome[f][1].error = "TaskNotFound"
        /\ largs[g].op = "spawn"
        /\ outcome[g] # None /\ outcome[g][1].ok

(***************************************************************************)
(* C9.  A call of spawn or spawn_followup asks the process runner for a    *)
(* start at most once; when the start fails the call has returned a        *)
(* SpawnError and no process handle; a handle is returned only for the one *)
(* start that succeeded.                                                   *)
(***************************************************************************)
C9_NoRetry ==
    \A f \in LaunchCalls :
        /\ Len(starts[f]) <= 1
        /\ starts[f] # <<>> =>
              /\ lpc[f] = "returned" /\ outcome[f] # None
              /\ starts[f][1].command = command[f]
              /\ IF starts[f][1].ok
                 THEN /\ outcome[f][1].ok
                      /\ outcome[f][1].proc = Some(command[f])
                 ELSE /\ ~outcome[f][1].ok
                      /\ outcome[f][1].error = "SpawnError"
                      /\ outcome[f][1].proc = None
        /\ (outcome[f] # None /\ outcome[f][1].ok) => Len(starts[f]) = 1

\* a spawn and a spawn_followup have both returned a SpawnError
C9_Witness ==
    \E f, g \in LaunchCalls :
        /\ largs[f].op = "spawn" /\ largs[g].op = "spawn_followup"
        /\ outcome[f] # None /\ outcome[f][1].error = "SpawnError"
        /\ outcome[g] # None /\ outcome[g][1].error = "SpawnError"
        /\ Len(starts[f]) = 1 /\ Len(starts[g]) = 1

(***************************************************************************)
(* C10.  Two spawn_followup calls that differ only in session_id configure *)
(* the same process; the session id is no part of the command (program,    *)
(* arguments, standard input, working directory, environment) nor of the   *)
(* returned handle, and is a piece of the context of a SpawnError.         *)
(***************************************************************************)
Range(seq) == { seq[i] : i \in 1..Len(seq) }

\* the strings a configured command is made of
Pieces(cmd) ==
    {cmd.program, cmd.working_dir} \cup Range(cmd.args) \cup Range(cmd.stdin)
        \cup UNION { {kv[1], kv[2]} : kv \in cmd.env }

Configured(f) == largs[f].op = "spawn_followup" /\ lpc[f] \in {"start", "returned"}

C10_SessionNotForwarded ==
    \A f \in LaunchCalls :
        Configured(f) =>
            /\ largs[f].session_id \notin Pieces(command[f])
            /\ \A r \in Range(starts[f]) : r.command = command[f]
            /\ (outcome[f] # None /\ outcome[f][1].ok)
                  => outcome[f][1].proc = Some(command[f])
            /\ (outcome[f] # None /\ ~outcome[f][1].ok)
                  => /\ outcome[f][1].context[1].command = command[f]
                     /\ largs[f].session_id \in Range(outcome[f][1].context[1].context)
            /\ \A g \in LaunchCalls :
                  (/\ Configured(g)
                   /\ largs[g].task_id = largs[f].task_id
                   /\ largs[g].prompt = largs[f].prompt
                   /\ largs[g].worktree_path = largs[f].worktree_path)
                  => command[g] = command[f]

\* two spawn_followup calls with different session ids and the same other
\* arguments have returned, one with a SpawnError
C10_Witness ==
    \E f, g \in LaunchCalls :
        /\ Configured(f) /\ Configured(g)
        /\ largs[f].session_id # largs[g].session_id
        /\ [largs[f] EXCEPT !.session_id = ""] = [largs[g] EXCEPT !.session_id = ""]
        /\ outcome[f] # None /\ outcome[f][1].ok
        /\ outcome[g] # None /\ outcome[g][1].error = "SpawnError"

(***************************************************************************)
(* C11.  A record whose msg.type is a string other than the six known      *)
(* types pushes exactly one entry: SystemMessage, content "Unknown message *)
(* type: " followed by the type, metadata the full record.                 *)
(***************************************************************************)
KnownTypes ==
    {"task_started", "agent_reasoning", "exec_command_begin", "exec_command_end",
     "task_complete", "token_count"}

UnknownType(line) == MsgType(line) # None /\ MsgType(line)[1] \notin KnownTypes

C11_UnknownType ==
    \A c \in Calls :
        \A i \in 1..idx[c] :
            UnknownType(lines[c][i]) =>
                PushedBy(c, i) =
                    << [timestamp |-> <<>>,
                        entry_type |-> [variant |-> "SystemMessage"],
                        content |-> <<W("Unknown message type: "),
                                      W(MsgType(lines[c][i])[1])>>,
                        metadata |-> Parsed(lines[c][i])] >>

\* a call has returned the entry of a record of unknown type, between the
\* entries of two other lines
C11_Witness ==
    \E c \in Calls :
        /\ pc[c] = "done"
        /\ Len(lines[c]) = 3
        /\ UnknownType(lines[c][2])
        /\ Len(entries[c]) = 3
        /\ origin[c] = <<1, 2, 3>>
        /\ entries[c][2].metadata = Parsed(lines[c][2])

(***************************************************************************)
(* C12 as stated.  Every line that parses as JSON and is not a record of   *)
(* one of the six known message types has pushed at least one              *)
(* SystemMessage entry that carries the full record as metadata: with      *)
(* content "Unrecognized JSON: " followed by the line when the record has  *)
(* no msg field, and "Unknown message type: " followed by the type         *)
(* otherwise.                                                              *)
(***************************************************************************)
OfKnownType(line) == MsgType(line) # None /\ MsgType(line)[1] \in KnownTypes

HasMsg(line) == Parsed(line) # None /\ Get(Parsed(line)[1], "msg") # None

C12_NeverDropped ==
    \A c \in Calls :
        \A i \in 1..idx[c] :
            (Parsed(lines[c][i]) # None /\ ~OfKnownType(lines[c][i])) =>
                \E j \in EntriesOf(c, i) :
                    /\ entries[c][j].entry_type = [variant |-> "SystemMessage"]
                    /\ entries[c][j].metadata = Parsed(lines[c][i])
                    /\ IF HasMsg(lines[c][i])
                       THEN entries[c][j].content[1] = W("Unknown message type: ")
                       ELSE entries[c][j].content =
                                <<W("Unrecognized JSON: ")>> \o Trim(lines[c][i])

(***************************************************************************)
(* C13.  In a returned conversation an entry has no metadata iff the line  *)
(* that pushed it is not JSON; every other entry has as metadata the full  *)
(* record of the line that pushed it, so the two entries of a              *)
(* task_complete line have the same metadata.                              *)
(***************************************************************************)
C13_Metadata ==
    \A c \in Calls :
        pc[c] = "done" =>
            LET es == result[c][1].entries IN
            /\ Len(es) = Len(origin[c])
            /\ \A j \in 1..Len(es) :
                  LET line == lines[c][origin[c][j]] IN
                  /\ es[j].metadata = None <=> NonJson(line)
                  /\ ~NonJson(line) =>
                        /\ Parsed(line) # None
                        /\ es[j].metadata = Some(Parsed(line)[1])
            /\ \A j, k \in 1..Len(es) :
                  origin[c][j] = origin[c][k] => es[j].metadata = es[k].metadata

\* a call has returned the entry of a line that is not JSON, the entry of a
\* record without msg, and the two entries of a task_complete record
C13_Witness ==
    \E c \in Calls :
        /\ pc[c] = "done"
        /\ \E i, j, k \in 1..Len(lines[c]) :
              /\ NonJson(lines[c][i]) /\ EntriesOf(c, i) # {}
              /\ Parsed(lines[c][j]) # None /\ ~HasMsg(lines[c][j])
              /\ EntriesOf(c, j) # {}
              /\ TaskComplete(lines[c][k]) /\ Cardinality(EntriesOf(c, k)) = 2
        /\ \E j \in 1..Len(entries[c]) : result[c][1].entries[j].metadata = None
        /\ \E j \in 1..Len(entries[c]) : result[c][1].entries[j].metadata # None

(***************************************************************************)
(* C14.  Every step of a scan leaves the entries it found as a prefix of   *)
(* the entries after it: no entry is changed, moved or removed once        *)
(* pushed, also not by a line that pushes nothing; and the returned        *)
(* entries are the entries of the scan.                                    *)
(***************************************************************************)
IsPrefix(s, t) == Len(s) <= Len(t) /\ SubSeq(t, 1, Len(s)) = s

C14_AppendOnly ==
    [][\A c \in Calls :
          pc[c] = "scan" =>
              /\ IsPrefix(entries[c], entries'[c])
              /\ pc'[c] = "done" => result'[c][1].entries = entries[c]]_vars

\* a scan holds the entries of its first line after its second line, which
\* pushed nothing, and has a third line to go
C14_Witness ==
    \E c \in Calls :
        /\ pc[c] = "scan"
        /\ Len(lines[c]) = 3
        /\ idx[c] = 2
        /\ PushesOf[lines[c][2]] = <<>>
        /\ entries[c] # <<>>
        /\ entries[c] = PushesOf[lines[c][1]]
        /\ PushesOf[lines[c][3]] # <<>>

(***************************************************************************)
(* C15.  The session id slot of a call is empty before the first line, and *)
(* once it holds a value no step of the scan changes or clears it: it is   *)
(* written at most once per call, and the call returns it.                 *)
(***************************************************************************)
C15_WriteOnce ==
    [][\A c \in Calls :
          pc[c] = "scan" =>
              /\ idx[c] = 0 => session_id[c] = None
              /\ session_id[c] # None => session_id'[c] = session_id[c]
              /\ pc'[c] = "done" => result'[c][1].session_id = session_id[c]]_vars

\* a scan holds the session id of its first line after a second line whose
\* session_id is no string and a third line with another session id
C15_Witness ==
    \E c \in Calls :
        /\ pc[c] = "scan"
        /\ idx[c] = 3
        /\ AsStr(SessionField(lines[c][1])) # None
        /\ SessionField(lines[c][2]) # None
        /\ AsStr(SessionField(lines[c][2])) = None
        /\ AsStr(SessionField(lines[c][3])) # None
        /\ AsStr(SessionField(lines[c][3])) # AsStr(SessionField(lines[c][1]))
        /\ session_id[c] = AsStr(SessionField(lines[c][1]))

(***************************************************************************)
(* C16.  Every command built by spawn or spawn_followup has the host's     *)
(* shell as program, exactly the shell flag and the agent's command line   *)
(* as arguments, and exactly NODE_NO_WARNINGS=1 and RUST_LOG=info as       *)
(* environment; the task's project id, title and description, and the      *)
(* followup prompt, are on standard input and in no other part of it.      *)
(***************************************************************************)
Built(f) == lpc[f] \in {"start", "returned"} /\ command[f] # NewCommand

\* the strings of the command line, arguments and environment
Invocation(cmd) ==
    {cmd.program} \cup Range(cmd.args) \cup UNION { {kv[1], kv[2]} : kv \in cmd.env }

\* the texts the caller's task or prompt brings into the call
CallerTexts(f) ==
    IF largs[f].op = "spawn_followup" THEN {largs[f].prompt}
    ELSE LET task == TaskStore[largs[f].task_id][1] IN
         {task.project_id, task.title} \cup Range(task.description)

C16_FixedCommand ==
    \A f \in LaunchCalls :
        Built(f) =>
            /\ command[f].program = shell[1]
            /\ command[f].args = <<shell[2], codex_command>>
            /\ command[f].env = {<<"NODE_NO_WARNINGS", "1">>, <<"RUST_LOG", "info">>}
            /\ CallerTexts(f) \cap Invocation(command[f]) = {}
            /\ CallerTexts(f) \subseteq Range(command[f].stdin)
            /\ \A r \in Range(starts[f]) : r.command = command[f]
            /\ \A g \in LaunchCalls :
                  Built(g) => /\ command[g].program = command[f].program
                              /\ command[g].args = command[f].args
                              /\ command[g].env = command[f].env

\* a spawn of a task with a description and a spawn_followup have both had
\* their process started, on different prompts
C16_Witness ==
    \E f, g \in LaunchCalls :
        /\ largs[f].op = "spawn" /\ largs[g].op = "spawn_followup"
        /\ Built(f) /\ Built(g)
        /\ TaskStore[largs[f].task_id][1].description # None
        /\ Len(starts[f]) = 1 /\ Len(starts[g]) = 1
        /\ command[f].stdin # command[g].stdin
        /\ command[f].args = command[g].args

(***************************************************************************)
(* C17.  However the steps of two calls interleave, each call holds after  *)
(* each of its lines the entries and the session id that its own lines     *)
(* alone give, and returns the conversation of its own input: a session id *)
(* captured by one call is neither seen by the other nor keeps the other   *)
(* from capturing its own.                                                 *)
(***************************************************************************)
\* the lines call c has consumed
Consumed(c) == SubSeq(lines[c], 1, idx[c])

C17_Independent ==
    \A c \in Calls :
        pc[c] # "idle" =>
            /\ entries[c] = NormalizeEntries(Consumed(c))
            /\ session_id[c] = NormalizeSession(Consumed(c), None)
            /\ pc[c] = "done" =>
                  result[c] = Some(Conversation(NormalizeEntries(lines[c]),
                                                NormalizeSession(lines[c], None)))

\* the two calls are in their scans, one line each consumed: one holds a
\* session id; the other, whose first line has none, is about to capture
\* another one
C17_Witness ==
    \E c, d \in Calls :
        /\ c # d
        /\ pc[c] = "scan" /\ pc[d] = "scan"
        /\ idx[c] = 1 /\ idx[d] = 1
        /\ Len(lines[c]) = 2 /\ Len(lines[d]) = 2
        /\ session_id[c] # None
        /\ session_id[d] = None
        /\ AsStr(SessionField(lines[d][2])) # None
        /\ AsStr(SessionField(lines[d][2])) # session_id[c]

(***************************************************************************)
(* C18.  For every split of a call's input between two lines into parts A  *)
(* and B, the returned entries are the entries of A followed by the        *)
(* entries of B, and the returned session id is that of A when A has one   *)
(* and that of B otherwise.  Hence of two calls that have returned, one on *)
(* a capture that the other's input extends by further lines, the second   *)
(* returns the entries of the first followed by those of the further       *)
(* lines, and the session id of the first when it has one.                 *)
(***************************************************************************)
\* the text of the lines from..to of call c, as a capture of its own
Part(c, from, to) == SepBy(SubSeq(lines[c], from, to), NL)

\* the entries and the session id that normalizing a text gives
EntriesOfText(text) == NormalizeEntries(Lines(text))
SessionOfText(text) == NormalizeSession(Lines(text), None)

C18_Compositional ==
    \A c \in Calls :
        pc[c] = "done" =>
            /\ \A k \in 0..Len(lines[c]) :
                  LET A == Part(c, 1, k)
                      B == Part(c, k + 1, Len(lines[c]))
                  IN /\ result[c][1].entries = EntriesOfText(A) \o EntriesOfText(B)
                     /\ result[c][1].session_id =
                           IF SessionOfText(A) # None THEN SessionOfText(A)
                           ELSE SessionOfText(B)
            /\ \A d \in Calls :
                  (pc[d] = "done" /\ IsPrefix(lines[d], lines[c])) =>
                      LET B == Part(c, Len(lines[d]) + 1, Len(lines[c])) IN
                      /\ result[c][1].entries =
                            result[d][1].entries \o EntriesOfText(B)
                      /\ result[c][1].session_id =
                            IF result[d][1].session_id # None
                            THEN result[d][1].session_id
                            ELSE SessionOfText(B)

\* one call has returned on a one-line capture without a session id, the
\* other on that line followed by a line that holds one and pushes nothing
C18_Witness ==
    \E c, d \in Calls :
        /\ pc[c] = "done" /\ pc[d] = "done"
        /\ Len(lines[d]) = 1 /\ Len(lines[c]) = 2
        /\ lines[c][1] = lines[d][1]
        /\ result[d][1].session_id = None
        /\ result[d][1].entries # <<>>
        /\ result[c][1].session_id # None
        /\ result[c][1].entries = result[d][1].entries

(***************************************************************************)
(* C19.  A record with a top-level string session_id leaves the session    *)
(* slot filled, with its own session id when no earlier line had one,      *)
(* whether or not it pushes an entry and whatever its msg is; and a        *)
(* returned call's entries are those of its input without any one of its   *)
(* exec_command_end or token_count lines (the session id need not be).     *)
(***************************************************************************)
HasSession(line) == AsStr(SessionField(line)) # None

\* the lines ls without line i
Without(ls, i) == SubSeq(ls, 1, i - 1) \o SubSeq(ls, i + 1, Len(ls))

C19_CaptureIndependent ==
    \A c \in Calls :
        /\ \A i \in 1..idx[c] :
              HasSession(lines[c][i]) =>
                  /\ session_id[c] # None
                  /\ (\A j \in 1..(i - 1) : ~HasSession(lines[c][j]))
                        => session_id[c] = AsStr(SessionField(lines[c][i]))
        /\ pc[c] = "done" =>
              \A i \in 1..Len(lines[c]) :
                  Suppressed(lines[c][i]) =>
                      result[c][1].entries = NormalizeEntries(Without(lines[c], i))

\* a call has returned the session id of a line that pushed nothing, where
\* the input without that line gives the same entries and another session id
C19_Witness ==
    \E c \in Calls :
        /\ pc[c] = "done"
        /\ \E i \in 1..Len(lines[c]) :
              /\ Suppressed(lines[c][i])
              /\ HasSession(lines[c][i])
              /\ EntriesOf(c, i) = {}
              /\ result[c][1].session_id = AsStr(SessionField(lines[c][i]))
              /\ result[c][1].entries # <<>>
              /\ NormalizeEntries(Without(lines[c], i)) = result[c][1].entries
              /\ NormalizeSession(Without(lines[c], i), None)
                    \notin {None, result[c][1].session_id}
        /\ \E i \in 1..Len(lines[c]) :
              /\ HasSession(lines[c][i])
              /\ ~Suppressed(lines[c][i])
              /\ EntriesOf(c, i) = {}

(***************************************************************************)
(* C20.  An exec_command_begin record whose msg.command is an array, of    *)
(* any elements, pushes exactly one ToolUse entry: its command is the      *)
(* string elements of the array in their order, joined by single spaces    *)
(* (the other elements are skipped), its tool is "bash" when the first     *)
(* element is the string "bash" and "shell" otherwise.  A record whose     *)
(* msg.command is missing or is not an array pushes no entry.              *)
(***************************************************************************)
ExecBegin(line) == MsgType(line) = Some("exec_command_begin")

IsArray(opt) == opt # None /\ opt[1].t = "arr"

\* the elements of a JSON array that are strings
StringsOf(arr) == SelectSeq(arr, LAMBDA v : v.t = "str")

C20_ExecCommandAnyArray ==
    \A c \in Calls :
        \A i \in 1..idx[c] :
            ExecBegin(lines[c][i]) =>
                LET cmd == MsgField(lines[c][i], "command")
                    es == PushedBy(c, i)
                IN IF IsArray(cmd)
                   THEN LET arr == cmd[1].kids
                            text == SpaceJoined(StringsOf(arr))
                        IN /\ Len(es) = 1
                           /\ es[1].entry_type =
                                [variant |-> "ToolUse",
                                 tool_name |-> IF arr # <<>> /\ arr[1] = JStr("bash")
                                               THEN "bash" ELSE "shell",
                                 action_type |-> [variant |-> "CommandRun",
                                                  command |-> text]]
                           /\ es[1].content = Backtick \o text \o Backtick
                           /\ es[1].metadata = Parsed(lines[c][i])
                   ELSE es = <<>>

\* a call has returned that saw a command with a number after bash, a
\* command with bash after a number, and a command that is no array
C20_Witness ==
    \E c \in Calls :
        /\ pc[c] = "done"
        /\ \E i, j, k \in 1..Len(lines[c]) :
              /\ ExecBegin(lines[c][i]) /\ ExecBegin(lines[c][j]) /\ ExecBegin(lines[c][k])
              /\ IsArray(MsgField(lines[c][i], "command"))
              /\ IsArray(MsgField(lines[c][j], "command"))
              /\ ~IsArray(MsgField(lines[c][k], "command"))
              /\ PushedBy(c, i)[1].entry_type.tool_name = "bash"
              /\ Len(StringsOf(MsgField(lines[c][i], "command")[1].kids))
                    < Len(MsgField(lines[c][i], "command")[1].kids)
              /\ PushedBy(c, j)[1].entry_type.tool_name = "shell"
              /\ JStr("bash") \in Range(MsgField(lines[c][j], "command")[1].kids)
              /\ EntriesOf(c, k) = {}
        /\ Len(entries[c]) = 2

====
